---- MODULE Spec2Model ----
(***************************************************************************)
(* LinkSaverBot (src/bot.py): a chat bot that saves links with tags in a   *)
(* document collection and answers /list, /tags and /find from it.         *)
(*                                                                         *)
(* A Python str is a sequence of one-character strings.  The one           *)
(* character outside ASCII that the bot writes, U+2022, is the element     *)
(* Bullet.  The collection is the sequence of its documents in insertion   *)
(* order, which is the order in which find() returns them.  A document's   *)
(* created_at and _id are left out: no handler reads them.                 *)
(***************************************************************************)
EXTENDS Integers, Sequences, FiniteSets, TLC

VARIABLES
  links_collection,  \* the documents of db['links'], in insertion order
  update,            \* the update being handled: [user, text]
  replies,           \* what the handler sent with reply_text, in order
  db_calls,          \* the collection calls the handler made, in order
  raised,            \* the exception that left the handler, or "none"
  saved              \* history: the users whose /save reached insert_one

vars == <<links_collection, update, replies, db_calls, raised, saved>>

-----------------------------------------------------------------------------
(* Bounds of the model *)

\* the collection holds at most this many documents
MaxLinks == 2

\* the chat users (update.effective_user.id)
Users == {1, 2}

-----------------------------------------------------------------------------
(* Characters and str operations *)

Bullet == "bullet"

\* the ASCII characters 32..126 in code point order ("grave" is U+0060)
Printable ==
  <<" ", "!", "\"", "#", "$", "%", "&", "'", "(", ")", "*", "+", ",", "-", ".", "/",
    "0", "1", "2", "3", "4", "5", "6", "7", "8", "9", ":", ";", "<", "=", ">", "?",
    "@", "A", "B", "C", "D", "E", "F", "G", "H", "I", "J", "K", "L", "M", "N", "O",
    "P", "Q", "R", "S", "T", "U", "V", "W", "X", "Y", "Z", "[", "\\", "]", "^", "_",
    "grave", "a", "b", "c", "d", "e", "f", "g", "h", "i", "j", "k", "l", "m", "n", "o",
    "p", "q", "r", "s", "t", "u", "v", "w", "x", "y", "z", "{", "|", "}", "~">>

\* Op(v) with v evaluated once: TLC evaluates a definition's argument again
\* at each use, which a loop over a long str cannot afford
With(v, Op(_)) == CHOOSE r \in {Op(x) : x \in {v}} : TRUE

Min(S) == CHOOSE x \in S : \A y \in S : x <= y

\* ord(c)
Ord(c) ==
  IF c = "\n" THEN 10
  ELSE IF c = "\t" THEN 9
  ELSE 31 + (CHOOSE i \in 1..Len(Printable) : Printable[i] = c)

\* c.isascii() and c.isalpha()
IsAlpha(c) == Ord(c) \in (65..90) \cup (97..122)

\* c.isdigit(), for ASCII
IsDigit(c) == Ord(c) \in 48..57

\* what str.split() and str.strip() take for whitespace
IsSpace(c) == c \in {" ", "\n", "\t"}

\* s.startswith(p)
StartsWith(s, p) == Len(s) >= Len(p) /\ SubSeq(s, 1, Len(p)) = p

\* the first index from n on that holds no whitespace (Len(s) + 1: none)
RECURSIVE FirstKept(_, _)
FirstKept(s, n) ==
  IF n > Len(s) \/ ~IsSpace(s[n]) THEN n ELSE FirstKept(s, n + 1)

\* the first index from n on that holds whitespace (Len(s) + 1: none)
RECURSIVE FirstSpace(_, _)
FirstSpace(s, n) ==
  IF n > Len(s) \/ IsSpace(s[n]) THEN n ELSE FirstSpace(s, n + 1)

\* the last index up to n that holds no whitespace (0: none)
RECURSIVE LastKept(_, _)
LastKept(s, n) ==
  IF n = 0 \/ ~IsSpace(s[n]) THEN n ELSE LastKept(s, n - 1)

\* s.strip()
Strip(str) ==
  With(str, LAMBDA s : SubSeq(s, FirstKept(s, 1), LastKept(s, Len(s))))

\* s.split(): the maximal runs of non-whitespace characters, in order
RECURSIVE Split(_)
Split(str) ==
  With(str, LAMBDA s :
    LET keep == {i \in 1..Len(s) : ~IsSpace(s[i])}
    IN  IF keep = {} THEN <<>>
        ELSE LET b == Min(keep)
                 stops == {i \in b..Len(s) : IsSpace(s[i])}
                 e == IF stops = {} THEN Len(s) + 1 ELSE Min(stops)
             IN  <<SubSeq(s, b, e - 1)>> \o Split(SubSeq(s, e, Len(s))))

\* sep.join(strs)
RECURSIVE Join(_, _)
Join(sep, strs) ==
  IF strs = <<>> THEN <<>>
  ELSE IF Len(strs) = 1 THEN strs[1]
  ELSE strs[1] \o sep \o Join(sep, Tail(strs))

\* s.replace(c, '') for a single character c
RemoveAll(s, c) == SelectSeq(s, LAMBDA ch : ch # c)

\* a < b for str: by code point, a proper prefix first
RECURSIVE StrLess(_, _)
StrLess(a, b) ==
  IF b = <<>> THEN FALSE
  ELSE IF a = <<>> THEN TRUE
  ELSE IF Head(a) = Head(b) THEN StrLess(Tail(a), Tail(b))
  ELSE Ord(Head(a)) < Ord(Head(b))

\* sorted(S) for a set of str
RECURSIVE Sorted(_)
Sorted(S) ==
  IF S = {} THEN <<>>
  ELSE LET m == CHOOSE x \in S : \A y \in S \ {x} : StrLess(x, y)
       IN  <<m>> \o Sorted(S \ {m})

\* the elements of a sequence
Range(seq) == With(seq, LAMBDA s : {s[i] : i \in 1..Len(s)})

-----------------------------------------------------------------------------
(* The literals of src/bot.py *)

\* start: the help text (lines 43-48)
StartText ==
  <<"H", "i", "!", " ", "I", "'", "m", " ", "L", "i", "n", "k", " ", "S", "a", "v", "e",
    "r", " ", "B", "o", "t", ".", " ", "I", " ", "c", "a", "n", " ", "h", "e", "l", "p",
    " ", "y", "o", "u", " ", "s", "a", "v", "e", " ", "a", "n", "d", " ", "o", "r", "g",
    "a", "n", "i", "z", "e", " ", "y", "o", "u", "r", " ", "l", "i", "n", "k", "s", ".",
    "\n", "\n", "C", "o", "m", "m", "a", "n", "d", "s", ":", "\n", "/", "s", "a", "v",
    "e", " ", "<", "l", "i", "n", "k", ">", " ", "#", "t", "a", "g", "1", " ", "#", "t",
    "a", "g", "2", " ", "-", " ", "S", "a", "v", "e", " ", "a", " ", "l", "i", "n", "k",
    " ", "w", "i", "t", "h", " ", "t", "a", "g", "s", "\n", "/", "l", "i", "s", "t",
    " ", "-", " ", "L", "i", "s", "t", " ", "a", "l", "l", " ", "y", "o", "u", "r", " ",
    "s", "a", "v", "e", "d", " ", "l", "i", "n", "k", "s", "\n", "/", "t", "a", "g",
    "s", " ", "-", " ", "S", "h", "o", "w", " ", "a", "l", "l", " ", "y", "o", "u", "r",
    " ", "u", "s", "e", "d", " ", "t", "a", "g", "s", "\n", "/", "f", "i", "n", "d",
    " ", "#", "t", "a", "g", " ", "-", " ", "F", "i", "n", "d", " ", "l", "i", "n", "k",
    "s", " ", "b", "y", " ", "t", "a", "g">>

\* save_link: the reply to a text of fewer than 2 tokens (line 55)
SaveUsageText ==
  <<"P", "l", "e", "a", "s", "e", " ", "p", "r", "o", "v", "i", "d", "e", " ", "a", " ",
    "l", "i", "n", "k", " ", "a", "n", "d", " ", "o", "p", "t", "i", "o", "n", "a", "l",
    " ", "t", "a", "g", "s", ".", "\n", "F", "o", "r", "m", "a", "t", ":", " ", "/",
    "s", "a", "v", "e", " ", "<", "l", "i", "n", "k", ">", " ", "#", "t", "a", "g", "1",
    " ", "#", "t", "a", "g", "2">>

\* save_link: the reply to a link that fails validation (lines 71, 74)
InvalidUrlText ==
  <<"P", "l", "e", "a", "s", "e", " ", "p", "r", "o", "v", "i", "d", "e", " ", "a", " ",
    "v", "a", "l", "i", "d", " ", "U", "R", "L", ".", "\n", "E", "x", "a", "m", "p",
    "l", "e", ":", " ", "w", "w", "w", ".", "e", "x", "a", "m", "p", "l", "e", ".", "c",
    "o", "m", " ", "o", "r", " ", "h", "t", "t", "p", "s", ":", "/", "/", "e", "x", "a",
    "m", "p", "l", "e", ".", "c", "o", "m">>

\* save_link: the confirmation's prefix (line 86)
SavedPrefix ==
  <<"L", "i", "n", "k", " ", "s", "a", "v", "e", "d", " ", "s", "u", "c", "c", "e", "s",
    "s", "f", "u", "l", "l", "y", " ", "w", "i", "t", "h", " ", "t", "a", "g", "s", ":",
    " ">>

\* save_link: what the confirmation names when tags is empty (line 86)
NoTagsText ==
  <<"n", "o", " ", "t", "a", "g", "s">>

\* list_links: the message's first line (line 91)
ListHeader ==
  <<"Y", "o", "u", "r", " ", "s", "a", "v", "e", "d", " ", "l", "i", "n", "k", "s", ":",
    "\n", "\n">>

\* list_links: the reply when the user has no record (line 95)
NoLinksText ==
  <<"Y", "o", "u", " ", "h", "a", "v", "e", "n", "'", "t", " ", "s", "a", "v", "e", "d",
    " ", "a", "n", "y", " ", "l", "i", "n", "k", "s", " ", "y", "e", "t", ".">>

\* show_tags: the reply when the user has no tag (line 118)
NoTagsYetText ==
  <<"Y", "o", "u", " ", "h", "a", "v", "e", "n", "'", "t", " ", "u", "s", "e", "d", " ",
    "a", "n", "y", " ", "t", "a", "g", "s", " ", "y", "e", "t", ".">>

\* show_tags: the reply's first line (line 121)
TagsHeader ==
  <<"Y", "o", "u", "r", " ", "t", "a", "g", "s", ":", "\n">>

\* find_by_tag: the reply when no argument is given (line 126)
FindUsageText ==
  <<"P", "l", "e", "a", "s", "e", " ", "p", "r", "o", "v", "i", "d", "e", " ", "a", " ",
    "t", "a", "g", " ", "t", "o", " ", "s", "e", "a", "r", "c", "h", " ", "f", "o", "r",
    ".", "\n", "F", "o", "r", "m", "a", "t", ":", " ", "/", "f", "i", "n", "d", " ",
    "#", "t", "a", "g">>

\* find_by_tag: the message's first line up to the tag (line 135)
FindHeaderPrefix ==
  <<"L", "i", "n", "k", "s", " ", "t", "a", "g", "g", "e", "d", " ", "w", "i", "t", "h",
    " ", "#">>

\* find_by_tag: the rest of the first line (line 135)
FindHeaderSuffix ==
  <<":", "\n", "\n">>

\* find_by_tag: the reply when nothing matches, up to the tag (line 139)
NotFoundPrefix ==
  <<"N", "o", " ", "l", "i", "n", "k", "s", " ", "f", "o", "u", "n", "d", " ", "w", "i",
    "t", "h", " ", "t", "a", "g", " ", "#">>

\* the prefixes save_link accepts as a protocol (line 64)
HttpPrefix == <<"h", "t", "t", "p", ":", "/", "/">>

HttpsPrefix == <<"h", "t", "t", "p", "s", ":", "/", "/">>

\* ', ' of the joins (lines 86, 99, 121, 143)
CommaSpace == <<",", " ">>

\* the longest message list_links sends in one reply (lines 103-104)
MaxMessageLength == 4000

-----------------------------------------------------------------------------
(* urllib.parse.urlparse, as save_link uses it (line 69): the netloc of    *)
(* the result, or the ValueError urlsplit raises for a netloc with one     *)
(* square bracket and not the other                                        *)

\* a character a URL scheme may hold (urllib.parse.scheme_chars)
IsSchemeChar(c) == IsAlpha(c) \/ IsDigit(c) \/ c \in {"+", "-", "."}

\* url with its scheme and the ':' after it taken off, if it has one
AfterScheme(str) ==
  With(str, LAMBDA url :
    LET colons == {i \in 1..Len(url) : url[i] = ":"}
        i == IF colons = {} THEN 0 ELSE Min(colons)
        hasScheme == /\ i > 1
                     /\ IsAlpha(url[1])
                     /\ \A k \in 1..(i - 1) : IsSchemeChar(url[k])
    IN  IF hasScheme THEN SubSeq(url, i + 1, Len(url)) ELSE url)

\* the netloc of what follows the scheme: what stands between a leading '//'
\* and the first '/', '?' or '#' after it
SplitNetloc(str) ==
  With(str, LAMBDA rest :
    LET delims == {k \in 3..Len(rest) : rest[k] \in {"/", "?", "#"}}
    IN  IF ~StartsWith(rest, <<"/", "/">>) THEN <<>>
        ELSE SubSeq(rest, 3, IF delims = {} THEN Len(rest)
                                            ELSE Min(delims) - 1))

urlparse(url) ==
  With(SplitNetloc(AfterScheme(url)), LAMBDA netloc :
    LET chars == Range(netloc)
    IN  [netloc |-> netloc,
         error |-> IF ("[" \in chars) # ("]" \in chars)
                   THEN "ValueError" ELSE "none"])

-----------------------------------------------------------------------------
(* The collection (pymongo) *)

\* Matches with a filter on tags alone, whoever the owner
MatchesTagOnly(doc, filter) ==
  "tags" \in DOMAIN filter => filter.tags \in Range(doc.tags)

\* whether a document matches a find() filter: user_id equals the filter's,
\* and the filter's tag (a str) is an element of the array tags
Matches(doc, filter) ==
  /\ "user_id" \in DOMAIN filter => doc.user_id = filter.user_id
  /\ "tags" \in DOMAIN filter => filter.tags \in Range(doc.tags)

\* list(coll.find(filter))
Find(coll, filter) == SelectSeq(coll, LAMBDA doc : Matches(doc, filter))

\* the filter {} that every document matches
NoFilter(user) == [field \in {} |-> user]

\* the filter of list_links and show_tags (lines 90, 112)
OwnerFilter(user) == [user_id |-> user]

\* the filter of find_by_tag (lines 130-133)
OwnerTagFilter(user, tag) == [user_id |-> user, tags |-> tag]

\* an upsert keyed on owner and link: a document saved again replaces the first
Upsert(coll, doc) ==
  IF \E i \in 1..Len(coll) :
       coll[i].user_id = doc.user_id /\ coll[i].link = doc.link
  THEN [i \in 1..Len(coll) |->
          IF coll[i].user_id = doc.user_id /\ coll[i].link = doc.link
          THEN doc ELSE coll[i]]
  ELSE Append(coll, doc)

\* coll after coll.insert_one(doc) (line 84)
InsertOne(coll, doc) == Append(coll, doc)

FindCall(filter) == [op |-> "find", arg |-> filter]

InsertCall(doc) == [op |-> "insert_one", arg |-> doc]

-----------------------------------------------------------------------------
(* save_link (lines 51-86) *)

\* the tag words taken whole, '#' and all
ParseTagsWhole(parts) ==
  SelectSeq(SubSeq(parts, 3, Len(parts)),
            LAMBDA word : StartsWith(word, <<"#">>))

\* tags = [word[1:] for word in parts[2:] if word.startswith('#')] (line 61)
ParseTags(parts) ==
  LET words == SelectSeq(SubSeq(parts, 3, Len(parts)),
                         LAMBDA word : StartsWith(word, <<"#">>))
  IN  [k \in 1..Len(words) |-> Tail(words[k])]

\* the link with 'https://' put before it unless it starts with a protocol
\* (lines 64-65)
AddProtocol(link) ==
  IF StartsWith(link, HttpPrefix) \/ StartsWith(link, HttpsPrefix)
  THEN link
  ELSE HttpsPrefix \o link

\* a try that catches nothing
CaughtNothing(exc) == FALSE

\* the exceptions the try of lines 68-75 catches
Caught(exc) == exc = "ValueError"

\* the document of lines 78-83
LinkData(user, link, tags) == [user_id |-> user, link |-> link, tags |-> tags]

\* the reply of line 86
SavedText(tags) ==
  SavedPrefix \o (IF tags # <<>> THEN Join(CommaSpace, tags) ELSE NoTagsText)

-----------------------------------------------------------------------------
(* list_links, show_tags, find_by_tag *)

\* one line of the list (lines 99-100, 143-144)
FormatLink(link) ==
  LET tags == IF link.tags # <<>>
              THEN <<" ", "[">> \o Join(CommaSpace, link.tags) \o <<"]">>
              ELSE <<>>
  IN  <<Bullet, " ">> \o link.link \o tags \o <<"\n">>

\* the loops of lines 98-100 and 142-144
RECURSIVE FormatLinks(_)
FormatLinks(links) ==
  IF links = <<>> THEN <<>>
  ELSE FormatLink(Head(links)) \o FormatLinks(Tail(links))

\* the full chunks alone: what is left after the last full one is dropped
ChunksWholeOnly(message) ==
  LET n == Len(message) \div MaxMessageLength
  IN  [k \in 1..n |->
         SubSeq(message, (k - 1) * MaxMessageLength + 1, k * MaxMessageLength)]

\* [message[i:i+4000] for i in range(0, len(message), 4000)] (line 104)
Chunks(message) ==
  LET n == (Len(message) + MaxMessageLength - 1) \div MaxMessageLength
  IN  [k \in 1..n |->
         SubSeq(message, (k - 1) * MaxMessageLength + 1,
                IF k * MaxMessageLength < Len(message)
                THEN k * MaxMessageLength ELSE Len(message))]

\* whether list_links splits the message (line 103)
TooLong(message) == Len(message) > MaxMessageLength

\* the replies of list_links over a collection (lines 90-108)
ListReplies(coll, user) ==
  LET links == Find(coll, OwnerFilter(user))
      message == ListHeader \o FormatLinks(links)
  IN  IF links = <<>> THEN <<NoLinksText>>
      ELSE IF TooLong(message) THEN Chunks(message)
      ELSE <<message>>

\* the set show_tags collects (lines 112-115)
UserTags(coll, user) ==
  UNION {Range(link.tags) : link \in Range(Find(coll, OwnerFilter(user)))}

\* the replies of show_tags over a collection (lines 112-121)
TagsReplies(coll, user) ==
  LET tags == UserTags(coll, user)
  IN  IF tags = {} THEN <<NoTagsYetText>>
      ELSE <<TagsHeader \o Join(CommaSpace, Sorted(tags))>>

\* context.args of a command: the tokens after the command's name
Args(text) == Tail(Split(text))

\* tag = context.args[0].replace('#', '') (line 129)
FindTag(args) == RemoveAll(args[1], "#")

\* the replies of find_by_tag for a tag over a collection (lines 130-146)
FindReplies(coll, user, tag) ==
  LET found_links == Find(coll, OwnerTagFilter(user, tag))
      message == FindHeaderPrefix \o tag \o FindHeaderSuffix
                   \o FormatLinks(found_links)
  IN  IF found_links = <<>> THEN <<NotFoundPrefix \o tag>>
      ELSE <<message>>

-----------------------------------------------------------------------------
(* The handlers, as main registers them (lines 154-158): a command handler *)
(* takes the updates whose text starts with its command                    *)

CmdStart == <<"/", "s", "t", "a", "r", "t">>

CmdSave == <<"/", "s", "a", "v", "e">>

CmdList == <<"/", "l", "i", "s", "t">>

CmdTags == <<"/", "t", "a", "g", "s">>

CmdFind == <<"/", "f", "i", "n", "d">>

\* the command of a text: its first token
Command(text) ==
  With(text, LAMBDA s :
    LET b == FirstKept(s, 1) IN SubSeq(s, b, FirstSpace(s, b) - 1))

\* a handler that returns normally: what it was given, sent and called
Handled(user, text, sent, calls) ==
  /\ update' = [user |-> user, text |-> text]
  /\ replies' = sent
  /\ db_calls' = calls
  /\ raised' = "none"

start(user, text) ==
  /\ Command(text) = CmdStart
  /\ Handled(user, text, <<StartText>>, <<>>)
  /\ UNCHANGED <<links_collection, saved>>

save_link(user, message_text) ==
  /\ Command(message_text) = CmdSave
  /\ \E parts \in {Split(Strip(message_text))} :
         IF Len(parts) < 2
         THEN /\ Handled(user, message_text, <<SaveUsageText>>, <<>>)
              /\ UNCHANGED <<links_collection, saved>>
         ELSE \E tags \in {ParseTags(parts)}, link \in {AddProtocol(parts[2])} :
              \E result \in {urlparse(link)},
                 link_data \in {LinkData(user, link, tags)} :
                  IF result.error # "none"
                  THEN /\ update' = [user |-> user, text |-> message_text]
                       /\ db_calls' = <<>>
                       /\ IF Caught(result.error)
                          THEN replies' = <<InvalidUrlText>> /\ raised' = "none"
                          ELSE replies' = <<>> /\ raised' = result.error
                       /\ UNCHANGED <<links_collection, saved>>
                  ELSE IF result.netloc = <<>>
                  THEN /\ Handled(user, message_text, <<InvalidUrlText>>, <<>>)
                       /\ UNCHANGED <<links_collection, saved>>
                  ELSE /\ Len(links_collection) < MaxLinks
                       /\ links_collection' = InsertOne(links_collection, link_data)
                       /\ saved' = saved \cup {user}
                       /\ Handled(user, message_text, <<SavedText(tags)>>,
                                  <<InsertCall(link_data)>>)

list_links(user, text) ==
  /\ Command(text) = CmdList
  /\ Handled(user, text, ListReplies(links_collection, user),
             <<FindCall(OwnerFilter(user))>>)
  /\ UNCHANGED <<links_collection, saved>>

show_tags(user, text) ==
  /\ Command(text) = CmdTags
  /\ Handled(user, text, TagsReplies(links_collection, user),
             <<FindCall(OwnerFilter(user))>>)
  /\ UNCHANGED <<links_collection, saved>>

find_by_tag(user, text) ==
  /\ Command(text) = CmdFind
  /\ LET args == Args(text)
     IN  IF args = <<>>
         THEN Handled(user, text, <<FindUsageText>>, <<>>)
         ELSE LET tag == FindTag(args)
              IN  Handled(user, text, FindReplies(links_collection, user, tag),
                          <<FindCall(OwnerTagFilter(user, tag))>>)
  /\ UNCHANGED <<links_collection, saved>>

-----------------------------------------------------------------------------
(* The updates the model sends *)

SaveTexts ==
  { <<"/", "s", "a", "v", "e">>,
    <<"/", "s", "a", "v", "e", " ", "e", "x", "a", "m", "p", "l", "e", ".", "c", "o", "m",
      " ", "#", "a", " ", "#", "B">>,
    <<"/", "s", "a", "v", "e", " ", ":", "8", "0">>,
    <<"/", "s", "a", "v", "e", " ", "@">>,
    <<"/", "s", "a", "v", "e", " ", "/", "p", "a", "t", "h">>,
    <<"/", "s", "a", "v", "e", " ", "H", "T", "T", "P", ":", "/", "/", "x">>,
    <<"/", "s", "a", "v", "e", " ", "[">>,
    <<"/", "s", "a", "v", "e", " ", "x", ".", "c", "o", "m", " ", "#", " ", "#", "#", "x">>,
    <<"/", "s", "a", "v", "e", " ", " ", "h", "t", "t", "p", ":", "/", "/", "x", ".", "c",
      "o", "m", " ", "n", "o", "t", "e", " ", "#", "a", "#", "b", "\n">> }

FindTexts ==
  { <<"/", "f", "i", "n", "d">>,
    <<"/", "f", "i", "n", "d", " ", "#", "a">>,
    <<"/", "f", "i", "n", "d", " ", "#", "B">>,
    <<"/", "f", "i", "n", "d", " ", "a", "#", "b">>,
    <<"/", "f", "i", "n", "d", " ", "#", "#", "x">>,
    <<"/", "f", "i", "n", "d", " ", "#">> }

Texts == {CmdStart, CmdList, CmdTags} \cup SaveTexts \cup FindTexts

\* a link of n characters
LongLink(n) == [i \in 1..n |-> "a"]

SavePrefix == <<"/", "s", "a", "v", "e", " ">>

\* /save commands whose links fill a message: the list of the first alone is
\* MaxMessageLength characters long, of the second one more, and the first
\* and the third together make two full messages
LongSaveTexts ==
  { SavePrefix \o LongLink(MaxMessageLength - 30),
    SavePrefix \o LongLink(MaxMessageLength - 29) \o <<" ", "#", "a">>,
    SavePrefix \o LongLink(MaxMessageLength - 11) }

LongTexts ==
  {CmdStart, CmdList, CmdTags} \cup LongSaveTexts
    \cup { <<"/", "f", "i", "n", "d", " ", "#", "a">>,
           <<"/", "f", "i", "n", "d", " ", "#", "b">> }

-----------------------------------------------------------------------------
(* The bot *)

\* the bot started on an empty collection, no update handled yet
Init ==
  /\ links_collection = <<>>
  /\ update = [user |-> 0, text |-> <<>>]
  /\ replies = <<>>
  /\ db_calls = <<>>
  /\ raised = "none"
  /\ saved = {}

Next ==
  \E user \in Users, text \in Texts :
    \/ start(user, text)
    \/ save_link(user, text)
    \/ list_links(user, text)
    \/ show_tags(user, text)
    \/ find_by_tag(user, text)

Spec == Init /\ [][Next]_vars

\* the bot under commands with links as long as a message
NextLong ==
  \E user \in Users, text \in LongTexts :
    \/ start(user, text)
    \/ save_link(user, text)
    \/ list_links(user, text)
    \/ show_tags(user, text)
    \/ find_by_tag(user, text)

SpecLong == Init /\ [][NextLong]_vars

-----------------------------------------------------------------------------
(* What the properties below speak of *)

\* the update being handled is a command cmd
Handling(cmd) == update.text # <<>> /\ Command(update.text) = cmd

\* the documents a user owns, in insertion order
OwnLinks(user) == SelectSeq(links_collection, LAMBDA doc : doc.user_id = user)

\* whether a document carries a tag
HasTag(doc, tag) == \E k \in 1..Len(doc.tags) : doc.tags[k] = tag

\* the document stored last
LastLink == links_collection[Len(links_collection)]

\* a /save text that passes parsing and the validation of lines 64-75
Accepted(text) ==
  /\ text # <<>>
  /\ Command(text) = CmdSave
  /\ \E parts \in {Split(text)} :
       /\ Len(parts) >= 2
       /\ \E result \in {urlparse(AddProtocol(parts[2]))} :
            result.error = "none" /\ result.netloc # <<>>

\* the update being handled is a /save that was accepted
JustSaved == Handling(CmdSave) /\ Accepted(update.text)

\* the tokens after the URL that start with '#'
HashWords(text) ==
  LET parts == Split(text)
  IN  SelectSeq(SubSeq(parts, 3, Len(parts)), LAMBDA word : word[1] = "#")

\* c.lower(), for ASCII
Lower(c) == IF Ord(c) \in 65..90 THEN Printable[Ord(c) + 1] ELSE c

\* s.lower()
LowerStr(s) == [i \in 1..Len(s) |-> Lower(s[i])]

\* the index of the last c in s (0: none)
RECURSIVE LastIndexOf(_, _, _)
LastIndexOf(s, c, n) ==
  IF n = 0 \/ s[n] = c THEN n ELSE LastIndexOf(s, c, n - 1)

\* the index of the first c in s from n on (Len(s) + 1: none)
RECURSIVE FirstIndexOf(_, _, _)
FirstIndexOf(s, c, n) ==
  IF n > Len(s) \/ s[n] = c THEN n ELSE FirstIndexOf(s, c, n + 1)

\* the host of a netloc: what follows the last '@', up to the port's ':', or
\* what stands between '[' and ']'
Hostname(netloc) ==
  LET hostinfo == SubSeq(netloc, LastIndexOf(netloc, "@", Len(netloc)) + 1,
                         Len(netloc))
      open == FirstIndexOf(hostinfo, "[", 1)
  IN  LowerStr(
        IF open <= Len(hostinfo)
        THEN SubSeq(hostinfo, open + 1, FirstIndexOf(hostinfo, "]", open + 1) - 1)
        ELSE SubSeq(hostinfo, 1, FirstIndexOf(hostinfo, ":", 1) - 1))

\* s with one leading '#' taken off
StripLeadingHash(s) == IF StartsWith(s, <<"#">>) THEN Tail(s) ELSE s

\* the strs of a sequence put end to end
RECURSIVE Concat(_)
Concat(strs) == IF strs = <<>> THEN <<>> ELSE Head(strs) \o Concat(Tail(strs))

\* the handler sent this one reply, called the collection never and returned
Answered(text) == replies = <<text>> /\ db_calls = <<>> /\ raised = "none"

\* the tags the properties search for
ProbeTags ==
  { <<>>, <<"a">>, <<"b">>, <<"B">>, <<"x">>, <<"#", "x">>, <<"a", "#", "b">> }

ExampleSave ==
  <<"/", "s", "a", "v", "e", " ", "e", "x", "a", "m", "p", "l", "e", ".", "c", "o", "m",
    " ", "#", "a", " ", "#", "B">>

ExampleLink ==
  <<"h", "t", "t", "p", "s", ":", "/", "/", "e", "x", "a", "m", "p", "l", "e", ".", "c",
    "o", "m">>

-----------------------------------------------------------------------------
(* The properties *)

\* C1: for every owner and every tag, the documents found by owner and tag are
\* exactly the documents of the owner's list that carry the tag, in the same
\* order, and each of them is the owner's.
C1_FindIsListRestrictedToTag ==
  \A owner \in Users, tag \in ProbeTags :
    LET found == Find(links_collection, OwnerTagFilter(owner, tag))
        listed == Find(links_collection, OwnerFilter(owner))
    IN  /\ found = SelectSeq(listed, LAMBDA doc : HasTag(doc, tag))
        /\ \A k \in 1..Len(found) : found[k].user_id = owner

\* C1, its case: an owner with a document that carries the tag and one that
\* does not.
C1_SomeFoundSomeNot ==
  \E owner \in Users, tag \in ProbeTags :
    LET found == Find(links_collection, OwnerTagFilter(owner, tag))
    IN  found # <<>> /\ Len(found) < Len(OwnLinks(owner))

\* C2: the replies to /list, /tags and /find of a user are those the handler
\* gives over the user's own documents alone, and a user who never saved is
\* told there are no links and no tags, whatever the others saved.
C2_OwnerIsolation ==
  LET user == update.user
      own == OwnLinks(user)
  IN  /\ Handling(CmdList) => replies = ListReplies(own, user)
      /\ Handling(CmdTags) => replies = TagsReplies(own, user)
      /\ Handling(CmdFind) /\ Args(update.text) # <<>> =>
           replies = FindReplies(own, user, FindTag(Args(update.text)))
      /\ Handling(CmdList) /\ user \notin saved => replies = <<NoLinksText>>
      /\ Handling(CmdTags) /\ user \notin saved => replies = <<NoTagsYetText>>

\* C2, its case: /list of a user who never saved, while another user's
\* documents are stored.
C2_OthersSavedOnly ==
  /\ Handling(CmdList)
  /\ update.user \notin saved
  /\ links_collection # <<>>

\* C3: a step that handles an accepted /save appends one document, owned by
\* the caller, and leaves the documents before it as they were; every other
\* step leaves the collection as it was.
C3_AppendOnly ==
  [][IF Accepted(update'.text)
     THEN /\ Len(links_collection') = Len(links_collection) + 1
          /\ SubSeq(links_collection', 1, Len(links_collection)) = links_collection
          /\ links_collection'[Len(links_collection')].user_id = update'.user
     ELSE links_collection' = links_collection]_vars

\* C3, its case: the same /save handled twice has stored two equal documents.
C3_DuplicateStored ==
  /\ JustSaved
  /\ Len(links_collection) = 2
  /\ links_collection[1] = links_collection[2]

\* C4: every stored link starts with 'http://' or 'https://' and has a host
\* that is not empty.
C4_StoredLinkHasHost ==
  \A i \in 1..Len(links_collection) :
    LET link == links_collection[i].link
    IN  /\ StartsWith(link, HttpPrefix) \/ StartsWith(link, HttpsPrefix)
        /\ Hostname(urlparse(link).netloc) # <<>>

C6_NoEmptyOrHashTag ==
  \A i \in 1..Len(links_collection) :
    \A k \in 1..Len(links_collection[i].tags) :
      LET tag == links_collection[i].tags[k]
      IN  tag # <<>> /\ tag[1] # "#"

\* C7: the replies to a /list with documents, put end to end, are the
\* formatted list; a list longer than 4000 characters is sent in two replies
\* or more, none longer than 4000 characters, and any other in one.
C7_ListChunked ==
  Handling(CmdList) /\ OwnLinks(update.user) # <<>> =>
    \E message \in {ListHeader \o FormatLinks(OwnLinks(update.user))} :
      /\ Concat(replies) = message
      /\ IF Len(message) > MaxMessageLength
         THEN /\ Len(replies) >= 2
              /\ \A k \in 1..Len(replies) : Len(replies[k]) <= MaxMessageLength
         ELSE Len(replies) = 1

\* C7, its case: a /list answered in two replies or more.
C7_ListSentInParts == Handling(CmdList) /\ Len(replies) >= 2

\* C8: no reply to /find is longer than 4000 characters.
C8_FindChunked ==
  Handling(CmdFind) =>
    \A k \in 1..Len(replies) : Len(replies[k]) <= MaxMessageLength

\* C9: a /find with an argument searches for its first argument with one
\* leading '#' taken off and nothing else changed.
C9_FindStripsLeadingHash ==
  Handling(CmdFind) /\ Args(update.text) # <<>> =>
    db_calls = <<FindCall(OwnerTagFilter(update.user,
                                         StripLeadingHash(Args(update.text)[1])))>>

\* C10: a /save of fewer than 2 tokens, a /save whose link fails validation
\* and a /find without argument each end with one reply, the usage or
\* guidance message, with no call of the collection and no exception.
C10_ParseErrorsAnswered ==
  /\ Handling(CmdSave) /\ Len(Split(update.text)) < 2 => Answered(SaveUsageText)
  /\ Handling(CmdSave) /\ Len(Split(update.text)) >= 2 /\ ~Accepted(update.text) =>
       Answered(InvalidUrlText)
  /\ Handling(CmdFind) /\ Args(update.text) = <<>> => Answered(FindUsageText)

\* C10, its case: a /save whose link makes urlparse raise ValueError has been
\* answered.
C10_ValueErrorAnswered ==
  /\ update.text = <<"/", "s", "a", "v", "e", " ", "[">>
  /\ replies = <<InvalidUrlText>>

====
